---- MODULE Spec2Model ----
(***************************************************************************)
(* Model of fetch_ohlcv.py: the OHLCV ingestion sweep (run_fetch) over the *)
(* (symbol, interval) pairs, with its collaborators                        *)
(*   - the klines endpoint reached through requests.get (fetch_klines),    *)
(*   - the parquet files under OUT_DIR (determine_fetch_range,             *)
(*     save_parquet),                                                      *)
(*   - the wall clock (datetime.utcnow).                                   *)
(*                                                                         *)
(* Time is counted in ticks; a millisecond is TicksPerMs ticks, so that    *)
(* the datetime -> epoch-milliseconds conversion of fetch_klines (int(..)) *)
(* and the epoch-milliseconds -> datetime conversion of to_df are not the  *)
(* identity.  Durations (HISTORICAL_DEPTH, INCREMENTAL_HOURS) are scaled   *)
(* down to a few ticks, the page size to two rows, and the symbol    *)
(* and timeframe lists to a prefix of the configured ones.                 *)
(*                                                                         *)
(* A kline row is modelled by two of its twelve fields: open_time (epoch   *)
(* milliseconds) and close (standing for all the value fields).            *)
(***************************************************************************)
EXTENDS Integers, Sequences, FiniteSets, TLC

(***************************************************************************)
(* Bounds of the model.                                                    *)
(***************************************************************************)
\* sweeps (runs of the script) explored
MaxSweeps == 2
\* rows the endpoint serves over the whole run
MaxServed == 3
\* latest value of the wall clock, in ticks
MaxClock == 10

\* open_time values (epoch milliseconds) and close values the endpoint serves
OpenMs == {2, 3}
Closes == {100, 105}

(***************************************************************************)
(* Configuration (fetch_ohlcv.py, lines 13-33).                            *)
(***************************************************************************)
SYMBOLS == <<"BTCUSDT">>
TIMEFRAMES == <<"1m", "1h">>
\* rows per page (1000 in the source)
BINANCE_MAX_LIMIT == 2
RETRY_LIMIT == 4
\* refresh threshold, in ticks (12 hours in the source)
INCREMENTAL_HOURS == 2

\* timedelta(days=365): the default of HISTORICAL_DEPTH.get, in ticks
DefaultDepth == 4

\* HISTORICAL_DEPTH.get(interval, timedelta(days=365)), in ticks: the depth
\* grows with the timeframe
HISTORICAL_DEPTH(intv) ==
    CASE intv = "1m" -> 3
      [] intv = "1h" -> 5
      [] OTHER -> DefaultDepth

\* ticks in a millisecond: the resolution of datetime below the millisecond
\* (1000 microseconds in the source)
TicksPerMs == 2

\* timedelta(milliseconds=1)
OneMs == TicksPerMs

\* pd.to_datetime(x, unit="ms")
FromMs(ms) == ms * TicksPerMs

\* int(ts.timestamp() * 1000): truncation to whole milliseconds
ToMs(t) == t \div TicksPerMs

\* OUT_DIR / f"{symbol}_{interval}.parquet"
Path(symbol, intv) == <<symbol, intv>>

Paths == {Path(SYMBOLS[a], TIMEFRAMES[b]) : a \in 1..Len(SYMBOLS), b \in 1..Len(TIMEFRAMES)}

(***************************************************************************)
(* Data.                                                                   *)
(***************************************************************************)
\* a row of the endpoint's answer
Rows == [open_time : OpenMs, close : Closes]

RECURSIVE SeqsUpTo(_, _)
SeqsUpTo(S, n) ==
    IF n = 0 THEN {<<>>}
    ELSE LET shorter == SeqsUpTo(S, n - 1)
         IN  shorter \cup {Append(s, x) : s \in {t \in shorter : Len(t) = n - 1}, x \in S}

\* the answers the endpoint can give to one request with limit=limit
PagesOf(limit) == SeqsUpTo(Rows, limit)

\* a row that to_df cannot convert: thirteen fields where the columns are
\* twelve, or a price that is no number
BadRows == [malformed : {"fields", "number"}]

WellFormed(row) == "open_time" \in DOMAIN row

\* the answers to one request that hold at least one such row
MalformedPagesOf(limit) ==
    {p \in SeqsUpTo(Rows \cup BadRows, limit) : \E k \in 1..Len(p) : ~WellFormed(p[k])}

\* the state of a parquet file
NoFile == [state |-> "absent", rows |-> <<>>]
Corrupt == [state |-> "corrupt", rows |-> <<>>]
File(rows) == [state |-> "ok", rows |-> rows]

(***************************************************************************)
(* to_df (lines 67-84).                                                    *)
(***************************************************************************)
to_df(page, symbol, intv) ==
    [k \in 1..Len(page) |->
        [symbol |-> symbol, interval |-> intv,
         open_time |-> FromMs(page[k].open_time), close |-> page[k].close]]

\* lines 70-83: pd.DataFrame(klines, columns=...) or astype raises ValueError
to_df_raises(page) == \E k \in 1..Len(page) : ~WellFormed(page[k])

(***************************************************************************)
(* save_parquet (lines 89-98): the merge.                                  *)
(***************************************************************************)
Key(r) == <<r.symbol, r.interval, r.open_time>>

\* DataFrame.drop_duplicates(subset=[symbol, interval, open_time]): keep="first"
drop_duplicates(s) ==
    LET keep == {k \in 1..Len(s) : \A m \in 1..(k - 1) : Key(s[m]) # Key(s[k])}
        F[k \in 0..Len(s)] ==
            IF k = 0 THEN <<>>
            ELSE IF k \in keep THEN Append(F[k - 1], s[k]) ELSE F[k - 1]
    IN  F[Len(s)]

\* insertion of r into a sequence sorted by open_time, after its equals
RECURSIVE InsertSorted(_, _)
InsertSorted(s, r) ==
    IF s = <<>> THEN <<r>>
    ELSE IF r.open_time < Head(s).open_time THEN <<r>> \o s
    ELSE <<Head(s)>> \o InsertSorted(Tail(s), r)

\* DataFrame.sort_values("open_time")
sort_values(s) ==
    LET F[k \in 0..Len(s)] == IF k = 0 THEN <<>> ELSE InsertSorted(F[k - 1], s[k])
    IN  F[Len(s)]

\* lines 91-96: the frame that is written
Combined(file, df) ==
    IF file.state # "absent"
    THEN sort_values(drop_duplicates(file.rows \o df))
    ELSE df

\* variant: only the last page is kept
ConcatLast(dfs) == IF dfs = <<>> THEN <<>> ELSE dfs[Len(dfs)]

\* pd.concat(all_dfs, ignore_index=True)
RECURSIVE concat(_)
concat(dfs) == IF dfs = <<>> THEN <<>> ELSE Head(dfs) \o concat(Tail(dfs))

\* df["open_time"].max()
MaxOpenTime(rows) ==
    CHOOSE t \in {rows[k].open_time : k \in 1..Len(rows)} :
        \A k \in 1..Len(rows) : rows[k].open_time <= t

(***************************************************************************)
(* State.                                                                  *)
(***************************************************************************)
VARIABLES
    store,       \* the parquet file of every pair
    clock,       \* the last value read from datetime.utcnow()
    sweep,       \* runs of run_fetch started so far
    pc,          \* where run_fetch stands
    si, ii,      \* the positions of the two for loops (sym, interval)
    start_time, end_time,   \* the window of the pair in hand
    current,     \* the cursor
    all_dfs,     \* the pages accumulated for the pair in hand
    attempt,     \* the attempt of fetch_klines under way
    req,         \* the parameters of the page request under way
    klines,      \* what fetch_klines last returned
    served,      \* rows served so far
    fed,         \* the endpoint has answered rows during this sweep (bookkeeping)
    snap,        \* the files as they were when this sweep started (bookkeeping)
    status,      \* what this sweep has done with every pair (bookkeeping)
    exhausted,   \* the last fetch loop entered ended on retry exhaustion
    backfills    \* how often every pair was given the backfill window (bookkeeping)

vars == <<store, clock, sweep, pc, si, ii, start_time, end_time, current,
          all_dfs, attempt, req, klines, served, fed, snap, status, exhausted,
          backfills>>

sym == SYMBOLS[si]
interval == TIMEFRAMES[ii]
path == Path(sym, interval)

NoReq == [symbol |-> "", interval |-> "", start_ts |-> 0, end_ts |-> 0,
          startTime |-> 0, endTime |-> 0, limit |-> 0]

\* the wall clock when the first sweep starts
ClockStart == MaxClock - 3

Init ==
    /\ store = [p \in Paths |-> NoFile]
    /\ clock = ClockStart
    /\ sweep = 0
    /\ pc = "idle"
    /\ si = 1 /\ ii = 1
    /\ start_time = 0 /\ end_time = 0 /\ current = 0
    /\ all_dfs = <<>>
    /\ attempt = 0
    /\ req = NoReq
    /\ klines = <<>>
    /\ served = 0
    /\ fed = FALSE
    /\ snap = store
    /\ status = [p \in Paths |-> "NotStarted"]
    /\ exhausted = FALSE
    /\ backfills = [p \in Paths |-> 0]

(***************************************************************************)
(* determine_fetch_range (lines 103-121), for a file that can be read.     *)
(* The result is (None, None) when none is TRUE; backfill tells the return *)
(* of line 111 from the one of line 121.                                   *)
(***************************************************************************)
\* variant: the depth map is not consulted
BackfillStartDefault(now, intv) == now - DefaultDepth

\* line 109: now - HISTORICAL_DEPTH.get(interval, ...)
BackfillStart(now, intv) == now - HISTORICAL_DEPTH(intv)

\* variant: <= for <
UpToDateInclusive(now, start) == (now - start) <= INCREMENTAL_HOURS

\* line 117: (now - start_time) < timedelta(hours=INCREMENTAL_HOURS)
UpToDate(now, start) == (now - start) < INCREMENTAL_HOURS

\* variant: the millisecond is not added
IncrementalStartSame(rows) == MaxOpenTime(rows)

\* lines 115-116: last_ts + timedelta(milliseconds=1)
IncrementalStart(rows) == MaxOpenTime(rows) + OneMs

\* variant: the test of line 107 is dropped
determine_fetch_rangeNoFileTest(file, intv, now) ==
    [none |-> FALSE, backfill |-> TRUE, start |-> BackfillStart(now, intv), end |-> now]

determine_fetch_range(file, intv, now) ==
    IF file.state = "absent"
    THEN [none |-> FALSE, backfill |-> TRUE,
          start |-> BackfillStart(now, intv), end |-> now]
    ELSE IF UpToDate(now, IncrementalStart(file.rows))
         THEN [none |-> TRUE, backfill |-> FALSE, start |-> 0, end |-> 0]
         ELSE [none |-> FALSE, backfill |-> FALSE,
               start |-> IncrementalStart(file.rows), end |-> now]

(***************************************************************************)
(* fetch_klines (lines 43-62).                                             *)
(***************************************************************************)
\* lines 44-48: the parameters of the request
Params(symbol, intv, start_ts, end_ts) ==
    [symbol |-> symbol, interval |-> intv, start_ts |-> start_ts, end_ts |-> end_ts,
     startTime |-> ToMs(start_ts), endTime |-> ToMs(end_ts), limit |-> BINANCE_MAX_LIMIT]

\* variant: range(1, RETRY_LIMIT)
MoreAttemptsShort(n) == n < RETRY_LIMIT - 1

\* what requests.get and r.json() can come to, besides a list of rows
TransportError == [kind |-> "exception"]
ErrorPayload == [kind |-> "dict", keys |-> {"code", "msg"}]
ListOf(page) == [kind |-> "list", rows |-> page]

\* lines 52-56: the attempt ends in the except clause
Raises(answer) ==
    \/ answer.kind = "exception"
    \/ answer.kind = "dict" /\ "code" \in answer.keys

\* line 50: for attempt in range(1, RETRY_LIMIT + 1) has a next value
MoreAttempts(n) == n < RETRY_LIMIT

(***************************************************************************)
(* run_fetch (lines 126-152).                                              *)
(***************************************************************************)
\* variant: <= for <
LoopCondInclusive(cur, end) == cur <= end

\* line 135: while current < end_time
LoopCond(cur, end) == cur < end

\* variant: iloc[0] for iloc[-1]
NextCursorFirst(df) == df[1].open_time + OneMs

\* lines 143-144: last_open + timedelta(milliseconds=1)
NextCursor(df) == df[Len(df)].open_time + OneMs

\* variant: the test of line 147 is dropped
HasDataAlways(dfs) == TRUE

\* line 147: if all_dfs
HasData(dfs) == dfs # <<>>

\* variant: the path does not depend on the interval
save_parquetOnePath(files, df, symbol, intv) ==
    [files EXCEPT ![Path(symbol, TIMEFRAMES[1])] = File(Combined(@, df))]

\* line 149 with lines 89-98: the files after save_parquet(df, symbol, interval)
save_parquet(files, df, symbol, intv) ==
    [files EXCEPT ![Path(symbol, intv)] = File(Combined(@, df))]

\* fetch_klines has returned: its locals are gone
Returned == attempt' = 0 /\ req' = NoReq

\* the locals of the pair in hand, once it is left
Forget ==
    /\ start_time' = 0 /\ end_time' = 0 /\ current' = 0
    /\ all_dfs' = <<>> /\ attempt' = 0 /\ req' = NoReq /\ klines' = <<>>

\* the for loops of lines 127-128 move on (after time.sleep(0.5), or continue)
NextPair ==
    IF ii < Len(TIMEFRAMES)
    THEN /\ ii' = ii + 1 /\ si' = si /\ pc' = "resolve"
    ELSE IF si < Len(SYMBOLS)
         THEN /\ si' = si + 1 /\ ii' = 1 /\ pc' = "resolve"
         ELSE /\ si' = si /\ ii' = ii /\ pc' = "done"

\* an exception leaves run_fetch: the process ends
Abort ==
    /\ pc' = "aborted"
    /\ UNCHANGED <<si, ii, exhausted>>
    /\ Forget

\* the script is started (again)
StartSweep ==
    /\ pc \in {"idle", "done", "aborted"}
    /\ sweep < MaxSweeps
    /\ sweep' = sweep + 1
    /\ pc' = "resolve" /\ si' = 1 /\ ii' = 1
    /\ fed' = FALSE
    /\ snap' = store
    /\ status' = [p \in Paths |-> "NotStarted"]
    /\ exhausted' = FALSE
    /\ Forget
    /\ UNCHANGED <<backfills, store, clock, served>>

\* lines 129-131 with a result of (None, None): continue
ResolveSkip ==
    /\ pc = "resolve"
    /\ store[path].state # "corrupt"
    /\ \E now \in clock..MaxClock :
        /\ determine_fetch_range(store[path], interval, now).none
        /\ clock' = now
    /\ status' = [status EXCEPT ![path] = "UpToDate"]
    /\ NextPair
    /\ Forget
    /\ UNCHANGED <<backfills, store, sweep, served, fed, snap, exhausted>>

\* lines 129-134 with a window
ResolveWindow ==
    /\ pc = "resolve"
    /\ store[path].state # "corrupt"
    /\ \E now \in clock..MaxClock :
        LET r == determine_fetch_range(store[path], interval, now)
        IN  /\ ~r.none
            /\ clock' = now
            /\ start_time' = r.start
            /\ end_time' = r.end
            /\ current' = r.start
            /\ backfills' = IF r.backfill THEN [backfills EXCEPT ![path] = @ + 1]
                                          ELSE backfills
    /\ all_dfs' = <<>>
    /\ exhausted' = FALSE
    /\ status' = [status EXCEPT ![path] = "Fetching"]
    /\ pc' = "loop"
    /\ UNCHANGED <<store, sweep, si, ii, attempt, req, klines, served, fed, snap>>

\* line 114: pd.read_parquet raises on a file that cannot be read
ResolveReadFail ==
    /\ pc = "resolve"
    /\ store[path].state = "corrupt"
    /\ Abort
    /\ UNCHANGED <<backfills, store, clock, sweep, served, fed, snap, status>>

\* lines 135-136: the loop goes on and fetch_klines starts its first attempt
IssueRequest ==
    /\ pc = "loop"
    /\ LoopCond(current, end_time)
    /\ req' = Params(sym, interval, current, end_time)
    /\ attempt' = 1
    /\ pc' = "fetch"
    /\ UNCHANGED <<backfills, store, clock, sweep, si, ii, start_time, end_time, current,
                   all_dfs, klines, served, fed, snap, status, exhausted>>

\* line 135: the loop ends
ExitLoop ==
    /\ pc = "loop"
    /\ ~LoopCond(current, end_time)
    /\ pc' = "persist"
    /\ UNCHANGED <<backfills, store, clock, sweep, si, ii, start_time, end_time, current,
                   all_dfs, attempt, req, klines, served, fed, snap, status, exhausted>>

\* lines 52-57 and 137-138: the attempt answers an empty list: break
PageEmpty ==
    /\ pc = "fetch"
    /\ ~Raises(ListOf(<<>>))
    /\ klines' = <<>>
    /\ Returned
    /\ pc' = "persist"
    /\ UNCHANGED <<backfills, store, clock, sweep, si, ii, start_time, end_time, current,
                   all_dfs, served, fed, snap, status, exhausted>>

\* variant: every page is written as soon as it is converted
PageDataSaving ==
    /\ pc = "fetch"
    /\ \E page \in PagesOf(req.limit) \ {<<>>} :
        LET df == to_df(page, sym, interval)
        IN  /\ ~Raises(ListOf(page))
            /\ served + Len(page) <= MaxServed
            /\ served' = served + Len(page)
            /\ klines' = page
            /\ all_dfs' = Append(all_dfs, df)
            /\ current' = NextCursor(df)
            /\ store' = save_parquet(store, df, sym, interval)
    /\ fed' = TRUE
    /\ Returned
    /\ pc' = "loop"
    /\ UNCHANGED <<backfills, clock, sweep, si, ii, start_time, end_time,
                   snap, status, exhausted>>

\* lines 52-57 and 139-145: the attempt answers rows (to_df of a non-empty
\* list is not empty, so line 141 is not reached)
PageData ==
    /\ pc = "fetch"
    /\ \E page \in PagesOf(req.limit) \ {<<>>} :
        LET df == to_df(page, sym, interval)
        IN  /\ ~Raises(ListOf(page))
            /\ served + Len(page) <= MaxServed
            /\ served' = served + Len(page)
            /\ klines' = page
            /\ all_dfs' = Append(all_dfs, df)
            /\ current' = NextCursor(df)
    /\ fed' = TRUE
    /\ Returned
    /\ pc' = "loop"
    /\ UNCHANGED <<backfills, store, clock, sweep, si, ii, start_time, end_time,
                   snap, status, exhausted>>

\* lines 136 and 139: the attempt answers a list that to_df cannot convert;
\* nothing catches the ValueError and it leaves run_fetch
PageMalformed ==
    /\ pc = "fetch"
    /\ \E page \in MalformedPagesOf(req.limit) :
        /\ ~Raises(ListOf(page))
        /\ to_df_raises(page)
        /\ served + Len(page) <= MaxServed
        /\ served' = served + Len(page)
        /\ klines' = page
    /\ Returned
    /\ start_time' = 0 /\ end_time' = 0 /\ current' = 0 /\ all_dfs' = <<>>
    /\ pc' = "aborted"
    /\ UNCHANGED <<backfills, store, clock, sweep, si, ii, fed, snap, status, exhausted>>

\* lines 58-62: the attempt raised; retry, or give up with []
FailAttempt(answer) ==
    /\ pc = "fetch"
    /\ Raises(answer)
    /\ IF MoreAttempts(attempt)
       THEN /\ attempt' = attempt + 1
            /\ UNCHANGED <<pc, klines, exhausted, req>>
       ELSE /\ klines' = <<>>
            /\ exhausted' = TRUE
            /\ Returned
            /\ pc' = "persist"
    /\ UNCHANGED <<backfills, store, clock, sweep, si, ii, start_time, end_time, current,
                   all_dfs, served, fed, snap, status>>

\* lines 52-53: connection error, timeout or non-success status
TransportFail == FailAttempt(TransportError)

\* lines 54-56: an answer {"code": .., "msg": ..}
AppError == FailAttempt(ErrorPayload)

\* lines 150-152: nothing was fetched
NoData ==
    /\ pc = "persist"
    /\ ~HasData(all_dfs)
    /\ status' = [status EXCEPT ![path] = "Completed"]
    /\ NextPair
    /\ Forget
    /\ UNCHANGED <<backfills, store, clock, sweep, served, fed, snap, exhausted>>

\* lines 147-149 and 152: save_parquet returns
SaveOk ==
    /\ pc = "persist"
    /\ HasData(all_dfs)
    /\ store' = save_parquet(store, concat(all_dfs), sym, interval)
    /\ status' = [status EXCEPT ![path] = "Completed"]
    /\ NextPair
    /\ Forget
    /\ UNCHANGED <<backfills, clock, sweep, served, fed, snap, exhausted>>

\* line 97: to_parquet raises; the file is as it was, or left unreadable
SaveWriteFail ==
    /\ pc = "persist"
    /\ HasData(all_dfs)
    /\ \E left \in {store[path], Corrupt} : store' = [store EXCEPT ![path] = left]
    /\ Abort
    /\ UNCHANGED <<backfills, clock, sweep, served, fed, snap, status>>

Next ==
    \/ StartSweep
    \/ ResolveSkip
    \/ ResolveWindow
    \/ ResolveReadFail
    \/ IssueRequest
    \/ ExitLoop
    \/ PageEmpty
    \/ PageData
    \/ PageMalformed
    \/ TransportFail
    \/ AppError
    \/ NoData
    \/ SaveOk
    \/ SaveWriteFail

Spec == Init /\ [][Next]_vars

\* the sweeps when the parquet files can always be written and read
NextStorageOk ==
    \/ StartSweep
    \/ ResolveSkip
    \/ ResolveWindow
    \/ IssueRequest
    \/ ExitLoop
    \/ PageEmpty
    \/ PageData
    \/ PageMalformed
    \/ TransportFail
    \/ AppError
    \/ NoData
    \/ SaveOk

SpecStorageOk == Init /\ [][NextStorageOk]_vars

\* PageData for an endpoint that honours startTime: the last row of the page
\* does not open before the startTime of the request
PageDataFresh ==
    /\ PageData
    /\ klines'[Len(klines')].open_time >= req.startTime

\* the sweeps against such an endpoint, whose rows are all well-formed
NextFreshTransport ==
    \/ StartSweep
    \/ ResolveSkip
    \/ ResolveWindow
    \/ ResolveReadFail
    \/ IssueRequest
    \/ ExitLoop
    \/ PageEmpty
    \/ PageDataFresh
    \/ TransportFail
    \/ AppError
    \/ NoData
    \/ SaveOk
    \/ SaveWriteFail

\* the interpreter does not stop by itself: a step that can be taken is taken
SpecFreshTransport ==
    Init /\ [][NextFreshTransport]_vars /\ WF_vars(NextFreshTransport)

(***************************************************************************)
(* Vocabulary of the properties.                                           *)
(***************************************************************************)
OpenTimes(rows) == {rows[k].open_time : k \in 1..Len(rows)}

RowsAt(rows, t) == {rows[k] : k \in {m \in 1..Len(rows) : rows[m].open_time = t}}

StrictlyAscending(rows) ==
    \A k \in 1..(Len(rows) - 1) : rows[k].open_time < rows[k + 1].open_time

\* the greatest element of a non-empty set of integers
SetMax(S) == CHOOSE t \in S : \A u \in S : u <= t

\* the rows of a list of pages, as <<page, position in the page>>
RowIds(dfs) == {<<d, k>> \in (1..Len(dfs)) \X (1..BINANCE_MAX_LIMIT) : k <= Len(dfs[d])}

\* the number of rows in the pages before page d
RECURSIVE Offset(_, _)
Offset(dfs, d) == IF d <= 1 THEN 0 ELSE Offset(dfs, d - 1) + Len(dfs[d - 1])

\* the pair in hand has been left for the next one, or for the end of the sweep
MovedOn ==
    /\ pc' \in {"resolve", "done"}
    /\ pc' = "resolve" => <<si', ii'>> # <<si, ii>>
    /\ pc' = "done" => si = Len(SYMBOLS) /\ ii = Len(TIMEFRAMES)

\* the step is a successful save_parquet of the pair in hand
SaveStep == pc = "persist" /\ HasData(all_dfs) /\ pc' # "aborted"

\* the pages accumulated are full pages followed by one short page
ShortAfterFull ==
    /\ Len(all_dfs) >= 2
    /\ Len(all_dfs[Len(all_dfs)]) < BINANCE_MAX_LIMIT
    /\ \A d \in 1..(Len(all_dfs) - 1) : Len(all_dfs[d]) = BINANCE_MAX_LIMIT

(***************************************************************************)
(* C1: after any sequence of save_parquet calls starting from no file, the *)
(* persisted series of every pair is strictly ascending by open_time, and  *)
(* so has no two records with the same open_time, whatever the incoming    *)
(* batches were.                                                           *)
(***************************************************************************)
C1_SeriesSortedUnique ==
    \A p \in Paths : store[p].state = "ok" => StrictlyAscending(store[p].rows)

(***************************************************************************)
(* C2: when save_parquet merges an existing series holding a record at     *)
(* open_time T with a batch holding records at T, the record persisted at  *)
(* T is one of the batch's records at T (incoming wins).                   *)
(***************************************************************************)
C2_IncomingWins ==
    [][(SaveStep /\ store[path].state = "ok")
        => \A t \in OpenTimes(store[path].rows) \cap OpenTimes(concat(all_dfs)) :
              RowsAt(store'[path].rows, t) \subseteq RowsAt(concat(all_dfs), t)]_vars

(***************************************************************************)
(* C3: a failure in the fetch or persist step of one pair never ends the   *)
(* sweep: no step taken while a pair is fetched or persisted leaves        *)
(* run_fetch by an exception.                                              *)
(***************************************************************************)
C3_PairFailureIsolated ==
    [][(pc \in {"loop", "fetch", "persist"}) => (pc' # "aborted")]_vars

(***************************************************************************)
(* C4: a page request whose every attempt fails is given up after exactly  *)
(* RETRY_LIMIT attempts; fetch_klines then returns an empty page without   *)
(* raising, the fetch loop of the pair issues no further request, and      *)
(* run_fetch goes on: with nothing accumulated its next step is the next   *)
(* pair (or the end of the sweep).                                         *)
(***************************************************************************)
C4_RetryExhaustion ==
    /\ [](attempt <= RETRY_LIMIT)
    /\ [](exhausted => pc \notin {"loop", "fetch"})
    /\ [][(pc = "fetch" /\ attempt' = attempt + 1) => attempt < RETRY_LIMIT]_vars
    /\ [][(pc = "fetch" /\ exhausted')
            => /\ attempt = RETRY_LIMIT
               /\ klines' = <<>>
               /\ pc' = "persist"
               /\ all_dfs' = all_dfs /\ store' = store]_vars
    /\ [][(pc = "persist" /\ exhausted /\ all_dfs = <<>>)
            => MovedOn /\ store' = store]_vars

C4_Witness == pc = "persist" /\ exhausted /\ all_dfs = <<>> /\ ii = 1

C6_CursorBelowEnd ==
    /\ [](pc = "fetch"
            => /\ req.start_ts = current
               /\ req.start_ts < end_time
               /\ FromMs(req.startTime) < end_time
               /\ req.end_ts = end_time)
    /\ [][(pc = "fetch" /\ pc' = "loop")
            => /\ klines' # <<>>
               /\ current' = FromMs(klines'[Len(klines')].open_time) + OneMs]_vars
    /\ [][(pc = "loop" /\ current >= end_time) => pc' = "persist"]_vars

C6_Witness ==
    pc = "persist" /\ all_dfs # <<>> /\ current >= end_time /\ ~exhausted /\ klines # <<>>

(***************************************************************************)
(* C7, as claimed: after full pages followed by a final short page, no     *)
(* further page request is issued for the pair.                            *)
(***************************************************************************)
C7_StopsAfterShortPage == ~(pc = "fetch" /\ ShortAfterFull)

(***************************************************************************)
(* C7, amended: after full pages followed by a short page, the fetch stops *)
(* without a further request exactly when the cursor (the short page's     *)
(* last open_time plus one millisecond) has reached the end of the window; *)
(* otherwise one more request is issued from that cursor, and the fetch    *)
(* stops when a page comes back empty.                                     *)
(***************************************************************************)
C7_StopsAtWindowEndOrEmptyPage ==
    /\ [][(pc = "loop" /\ ShortAfterFull)
            => LET short == all_dfs[Len(all_dfs)]
                   cursor == short[Len(short)].open_time + OneMs
               IN  IF cursor >= end_time
                   THEN pc' = "persist" /\ req' = req
                   ELSE pc' = "fetch" /\ req'.start_ts = cursor]_vars
    /\ [][(pc = "fetch" /\ ShortAfterFull /\ klines' = <<>> /\ attempt' = 0)
            => pc' = "persist" /\ all_dfs' = all_dfs]_vars

C7_Witness == pc = "fetch" /\ ShortAfterFull

(***************************************************************************)
(* C8: a sweep in which the endpoint answers no rows to any request (in    *)
(* particular a second sweep after a full one) leaves every pair's file as *)
(* it was when the sweep started: nothing is rewritten and no file is      *)
(* created.                                                                *)
(***************************************************************************)
C8_DrySweepIdempotent == ~fed => store = snap

C8_Witness ==
    /\ sweep = 2 /\ pc = "done" /\ ~fed
    /\ \E p \in Paths : store[p].state = "ok" /\ status[p] = "Completed"
    /\ \E p \in Paths : store[p].state = "absent" /\ status[p] = "Completed"

(***************************************************************************)
(* C9: for a pair whose file has maximum open_time L, the pair is skipped  *)
(* exactly when now - (L + 1 ms) < INCREMENTAL_HOURS, and otherwise gets   *)
(* the window [L + 1 ms, now); a skipped pair is sent no page request and  *)
(* its file is not written in that sweep.                                  *)
(***************************************************************************)
C9_SkipOrIncremental ==
    /\ [][(pc = "resolve" /\ store[path].state = "ok")
            => LET L == SetMax(OpenTimes(store[path].rows))
                   now == clock'
               IN  IF now - (L + OneMs) < INCREMENTAL_HOURS
                   THEN /\ status'[path] = "UpToDate"
                        /\ MovedOn
                        /\ store' = store
                   ELSE /\ status'[path] = "Fetching"
                        /\ pc' = "loop"
                        /\ start_time' = L + OneMs /\ end_time' = now
                        /\ current' = L + OneMs]_vars
    /\ [](pc \in {"loop", "fetch", "persist"} => status[path] = "Fetching")
    /\ [][\A p \in Paths :
            (status[p] = "UpToDate" /\ sweep' = sweep)
                => status'[p] = "UpToDate" /\ store'[p] = store[p]]_vars

C9_Witness ==
    /\ pc = "done"
    /\ \E p \in Paths : status[p] = "UpToDate" /\ Len(store[p].rows) >= 2
    /\ \E p \in Paths : status[p] = "Completed" /\ snap[p].state = "ok"

(***************************************************************************)
(* C10: for a pair without a file, the window is                           *)
(* [now - HISTORICAL_DEPTH[interval], now) for every timeframe and every   *)
(* now, and the first page request of the pair is sent with that start and *)
(* that end.                                                               *)
(***************************************************************************)
C10_BackfillWindow ==
    /\ [][(pc = "resolve" /\ store[path].state = "absent")
            => /\ pc' = "loop"
               /\ start_time' = clock' - HISTORICAL_DEPTH(interval)
               /\ end_time' = clock'
               /\ current' = start_time'
               /\ all_dfs' = <<>>]_vars
    /\ [](pc = "fetch" /\ all_dfs = <<>> /\ store[path].state = "absent"
            => /\ req.symbol = sym /\ req.interval = interval
               /\ req.start_ts = start_time /\ req.end_ts = end_time
               /\ end_time - start_time = HISTORICAL_DEPTH(interval)
               /\ req.startTime * TicksPerMs <= start_time
               /\ start_time < (req.startTime + 1) * TicksPerMs
               /\ req.endTime * TicksPerMs <= end_time
               /\ end_time < (req.endTime + 1) * TicksPerMs)

C10_Witness ==
    /\ pc = "fetch" /\ all_dfs = <<>> /\ store[path].state = "absent"
    /\ interval = "1h" /\ start_time % TicksPerMs = 1

(***************************************************************************)
(* C11: a pair whose file exists but cannot be read is treated as a pair   *)
(* without a file: determine_fetch_range answers the backfill window       *)
(* [now - HISTORICAL_DEPTH[interval], now) and run_fetch goes on.          *)
(***************************************************************************)
C11_CorruptFileBackfills ==
    [][(pc = "resolve" /\ store[path].state = "corrupt")
        => /\ pc' = "loop"
           /\ start_time' = clock' - HISTORICAL_DEPTH(interval)
           /\ end_time' = clock']_vars

(***************************************************************************)
(* C12: a page holding one malformed row (wrong arity or a field that is   *)
(* no number) besides well-formed rows is converted without that row: the  *)
(* well-formed rows of the page are accumulated, the fetch loop goes on    *)
(* from the cursor they give, and run_fetch is not left.                   *)
(***************************************************************************)
C12_MalformedRowSkipped ==
    [][(/\ pc = "fetch"
        /\ attempt' = 0
        /\ Cardinality({k \in 1..Len(klines') : ~WellFormed(klines'[k])}) = 1
        /\ \E k \in 1..Len(klines') : WellFormed(klines'[k]))
        => LET good == SelectSeq(klines', WellFormed)
           IN  /\ pc' = "loop"
               /\ all_dfs' = Append(all_dfs, to_df(good, sym, interval))
               /\ current' = NextCursor(to_df(good, sym, interval))]_vars

(***************************************************************************)
(* C13, as claimed: over any number of sweeps, with no file ever deleted   *)
(* from outside, every pair is given the backfill window at most once, a   *)
(* first backfill that fetched nothing included.                           *)
(***************************************************************************)
C13_BackfillAtMostOnce == \A p \in Paths : backfills[p] <= 1

(***************************************************************************)
(* C13, amended: a pair is given the backfill window in exactly the sweeps *)
(* that reach it while it has no file. A file, once there, stays, so no    *)
(* sweep after the one that created it backfills the pair again; a         *)
(* backfill that accumulates nothing creates no file, and the next sweep   *)
(* that reaches the pair backfills it again.                               *)
(***************************************************************************)
C13_BackfillWhileNoFile ==
    /\ [][\A p \in Paths : store[p].state # "absent" => store'[p].state # "absent"]_vars
    /\ [][\A p \in Paths :
            backfills'[p] # backfills[p]
                => /\ p = path /\ pc = "resolve"
                   /\ store[p].state = "absent"
                   /\ backfills'[p] = backfills[p] + 1]_vars
    /\ [][(pc = "resolve" /\ store[path].state = "absent")
            => backfills'[path] = backfills[path] + 1]_vars
    /\ [](\A p \in Paths : store[p].state # "absent" => backfills[p] >= 1)
    /\ [][(pc = "persist" /\ all_dfs = <<>>) => store'[path] = store[path]]_vars

C13_Witness ==
    /\ sweep = 2 /\ pc = "done"
    /\ \E p \in Paths : backfills[p] = 2 /\ store[p].state = "absent"
    /\ \E p \in Paths : backfills[p] = 1 /\ snap[p].state = "ok"
                                          /\ status[p] = "Completed"

(***************************************************************************)
(* C14: when the fetch of a pair accumulates nothing (the first page is    *)
(* empty, or the retries of the first request are exhausted), run_fetch    *)
(* writes nothing for the pair: every file is as it was, a file that was   *)
(* not there is not created, and the pair is done.                         *)
(***************************************************************************)
C14_NothingFetchedNothingWritten ==
    /\ [][(pc = "persist" /\ all_dfs = <<>>)
            => /\ store' = store
               /\ status'[path] = "Completed"
               /\ MovedOn]_vars
    /\ [](pc = "persist" /\ all_dfs = <<>> => klines = <<>> /\ store[path] = snap[path])
    /\ [][(pc = "fetch" /\ all_dfs = <<>> /\ klines' = <<>> /\ attempt' = 0)
            => pc' = "persist" /\ all_dfs' = <<>> /\ store' = store]_vars

C14_Witness ==
    /\ pc = "resolve" /\ ii = 2 /\ ~fed
    /\ status[Path(sym, TIMEFRAMES[1])] = "Completed"
    /\ store[Path(sym, TIMEFRAMES[1])].state = "ok"
    /\ exhausted

(***************************************************************************)
(* C16: within one sweep the file of a pair is written at most once, and   *)
(* only after the last page request of the pair: a file changes only in    *)
(* the persist step of its pair, until then it is as the sweep found it,   *)
(* the persist step is followed by no further request for the pair, and    *)
(* the file of a pair that is done is not touched again in the sweep.      *)
(***************************************************************************)
C16_OneWriteAfterLastRequest ==
    /\ [][\A p \in Paths :
            store'[p] # store[p] => p = path /\ pc = "persist" /\ all_dfs # <<>>]_vars
    /\ [](pc \in {"resolve", "loop", "fetch", "persist"} => store[path] = snap[path])
    /\ [][pc = "persist"
            => /\ pc' \in {"resolve", "done", "aborted"}
               /\ pc' = "resolve" => <<si', ii'>> # <<si, ii>> /\ status'[path] = "Completed"
               /\ pc' = "done" => status'[path] = "Completed"]_vars
    /\ [][\A p \in Paths :
            (status[p] = "Completed" /\ sweep' = sweep)
                => status'[p] = "Completed" /\ store'[p] = store[p]]_vars
    /\ [][(pc = "aborted" /\ sweep' = sweep) => store' = store /\ pc' = "aborted"]_vars

C16_Witness ==
    /\ pc = "resolve" /\ ii = 2
    /\ snap[Path(sym, TIMEFRAMES[1])].state = "absent"
    /\ store[Path(sym, TIMEFRAMES[1])].state = "ok"
    /\ Len(store[Path(sym, TIMEFRAMES[1])].rows) > BINANCE_MAX_LIMIT

(***************************************************************************)
(* C17: processing one pair leaves the file of every other pair as it was: *)
(* whatever run_fetch does while a pair is in hand, save_parquet included, *)
(* changes at most the file of that pair, and the file it writes holds     *)
(* rows of that pair only.                                                 *)
(***************************************************************************)
C17_OtherPairsUntouched ==
    /\ [][\A p \in Paths : p # path => store'[p] = store[p]]_vars
    /\ [][SaveStep
            => /\ store'[path].state = "ok"
               /\ store[path].state = "absent" => store'[path].rows = concat(all_dfs)]_vars
    /\ [](\A p \in Paths : \A k \in 1..Len(store[p].rows) :
            Path(store[p].rows[k].symbol, store[p].rows[k].interval) = p)

C17_Witness ==
    /\ pc = "done" /\ sweep = 2
    /\ snap[Path(sym, TIMEFRAMES[1])].state = "ok"
    /\ store[Path(sym, TIMEFRAMES[1])] = snap[Path(sym, TIMEFRAMES[1])]
    /\ status[Path(sym, TIMEFRAMES[1])] = "Completed"
    /\ snap[Path(sym, TIMEFRAMES[2])].state = "ok"
    /\ store[Path(sym, TIMEFRAMES[2])] # snap[Path(sym, TIMEFRAMES[2])]

(***************************************************************************)
(* C18: the open_times persisted for a pair only grow: after a             *)
(* save_parquet that found a file, every open_time of the file is still in *)
(* it and every open_time of the incoming batch is in it too; and no step  *)
(* of any sweep takes an open_time out of a file.                          *)
(***************************************************************************)
C18_KeysOnlyGrow ==
    /\ [][(SaveStep /\ store[path].state = "ok")
            => /\ store'[path].state = "ok"
               /\ OpenTimes(store'[path].rows)
                    = OpenTimes(store[path].rows) \cup OpenTimes(concat(all_dfs))]_vars
    /\ [][\A p \in Paths :
            store[p].state = "ok"
                => /\ store'[p].state = "ok"
                   /\ OpenTimes(store[p].rows) \subseteq OpenTimes(store'[p].rows)]_vars

\* the startTime of the d-th page request of the pair in hand, from the
\* window and the pages already returned
ReqStart(d) ==
    IF d = 1 THEN ToMs(start_time)
    ELSE ToMs(all_dfs[d - 1][Len(all_dfs[d - 1])].open_time + OneMs)

\* every page returned so far ends at or after the startTime it was asked from
AllFresh ==
    \A d \in 1..Len(all_dfs) : ToMs(all_dfs[d][Len(all_dfs[d])].open_time) >= ReqStart(d)

\* the pair in hand had a file when the sweep started
Incremental == snap[path].state = "ok"

(***************************************************************************)
(* C19, as claimed: in an incremental fetch every page request has a       *)
(* startTime strictly greater than the greatest open_time the pair's file  *)
(* held when the sweep started.                                            *)
(***************************************************************************)
C19_EveryRequestAboveStored ==
    (pc = "fetch" /\ Incremental)
        => FromMs(req.startTime) > SetMax(OpenTimes(snap[path].rows))

(***************************************************************************)
(* C19, amended: in an incremental fetch the first page request has a      *)
(* startTime of L plus one millisecond, L being the greatest open_time the *)
(* file held when the sweep started; as long as every page returned ends   *)
(* at or after the startTime it was asked from, the later requests have a  *)
(* startTime above L too, and the startTimes of the requests of the pair   *)
(* strictly increase.                                                      *)
(***************************************************************************)
C19_RequestsAboveStoredWhileFresh ==
    /\ [](pc = "fetch" => req.startTime = ReqStart(Len(all_dfs) + 1))
    /\ []((pc = "fetch" /\ Incremental /\ all_dfs = <<>>)
            => /\ req.start_ts = SetMax(OpenTimes(snap[path].rows)) + OneMs
               /\ FromMs(req.startTime) = SetMax(OpenTimes(snap[path].rows)) + OneMs)
    /\ []((pc = "fetch" /\ Incremental /\ AllFresh)
            => FromMs(req.startTime) > SetMax(OpenTimes(snap[path].rows)))
    /\ []((pc = "fetch" /\ AllFresh)
            => \A d \in 1..Len(all_dfs) : ReqStart(d) < ReqStart(d + 1))
    /\ [][(pc = "fetch" /\ pc' = "loop"
            /\ klines'[Len(klines')].open_time >= req.startTime)
            => ToMs(current') > req.startTime]_vars

C19_Witness ==
    /\ pc = "fetch" /\ Incremental /\ AllFresh
    /\ Len(all_dfs) >= 1

(***************************************************************************)
(* C15: against an endpoint whose every non-empty page ends at or after    *)
(* the requested startTime, every sweep that is started completes:         *)
(* run_fetch is not left before its end, it reaches its end, every pair is *)
(* then UpToDate or Completed, and a pair that was left is not taken up    *)
(* again in the sweep.                                                     *)
(***************************************************************************)
C15_SweepCompletes ==
    /\ [](pc # "aborted")
    /\ \A n \in 1..MaxSweeps : (sweep = n) ~> (sweep = n /\ pc = "done")
    /\ [](pc = "done" => \A p \in Paths : status[p] \in {"UpToDate", "Completed"})
    /\ [][\A p \in Paths :
            (status[p] \in {"UpToDate", "Completed"} /\ sweep' = sweep)
                => status'[p] = status[p]]_vars

====
